---- MODULE Spec2Model ----
(***************************************************************************)
(* Model of functions/main.py: the callable save_user_profile, the         *)
(* identity directory it reads (firebase_admin.auth.get_user) and the      *)
(* "users" collection it writes (DocumentReference.set with merge=True).   *)
(*                                                                         *)
(* A document is a finite map from field paths (sequences of keys) to leaf *)
(* values; a leaf is a scalar or the empty map.  This is the shape in      *)
(* which a merge-write reaches the store: set(..., merge=True) sends the   *)
(* written dict with an update mask made of its leaf field paths, an empty *)
(* dict being a leaf of its own.                                           *)
(***************************************************************************)
EXTENDS Naturals, Sequences, FiniteSets, TLC

\* Number of invocations of save_user_profile in one behaviour.
MaxCalls == 2

CallIds == 1..MaxCalls

\* ------------------------------------------------------------------ values

\* Python's None (a missing uid, a missing display name).
None == "None"

\* Users registered in the identity directory.
Uids == {"u1", "u2"}

\* req.auth is None.
NoAuth == [present |-> FALSE, uid |-> None]

\* req.auth values: absent, present without uid, with an empty uid, with a uid.
Auths == {NoAuth} \cup {[present |-> TRUE, uid |-> u] : u \in {None, ""} \cup Uids}

\* Callers the gateway verified as a registered user.
SignedIn == {[present |-> TRUE, uid |-> u] : u \in Uids}

\* The empty map as a leaf value.
EmptyMap == "{}"

\* A dict with no leaf paths: {}.
EmptyFields == [p \in {} |-> None]

\* {k: s}
Field(k, s) == [p \in {<<k>>} |-> s]

\* {k: {j: s}}
Nested(k, j, s) == [p \in {<<k, j>>} |-> s]

Keys == {"A", "B"}
Scalars == {"v1", "v2"}

\* req.data values that are dicts, as leaf-path maps:
\* {}, {"A": s}, {"B": "v1"}, {"A": {j: "v1"}}, {"uid": "u2"}.
DictFields ==
    {EmptyFields}
      \cup {Field("A", s) : s \in Scalars}
      \cup {Field("B", "v1")}
      \cup {Nested("A", j, "v1") : j \in Keys}
      \cup {Field("uid", "u2")}

DictData == {[kind |-> "dict", fields |-> f] : f \in DictFields}

\* req.data values that are not dicts.
NonDictData == {[kind |-> k, fields |-> EmptyFields] : k \in {"list", "str", "num", "null"}}

\* req.data values of the error-path specification.
Datas == NonDictData \cup {[kind |-> "dict", fields |-> Field("A", "v1")]}

\* A document that does not exist.
NoDoc == [p \in {} |-> None]

\* user.display_name of a registered user (None when the user has none).
display_name(u) == IF u = "u1" THEN "n1" ELSE None

VARIABLES
    users,      \* the "users" collection: uid -> document
    pc,         \* per call: "idle", "get_user", "set", "done"
    auth,       \* per call: req.auth
    data,       \* per call: req.data
    username,   \* per call: the local username
    result,     \* per call: "none", "ok" or the error code raised
    lookup,     \* per call: "none", "ok", "failed": the get_user call
    attempts,   \* per call: number of doc_ref.set calls made
    wrote,      \* per call: keys of the documents its writes changed
    applied,    \* per call: 0, or the position of its write among applied writes
    concurrent  \* per call: the calls in flight when it started

vars == <<users, pc, auth, data, username, result, lookup, attempts, wrote,
          applied, concurrent>>

\* ------------------------------------------------------- the handler's steps

\* Line 18: req.auth is None or req.auth.uid is None.
UnauthenticatedNoUidCheck(a) == ~a.present

Unauthenticated(a) == ~a.present \/ a.uid = None

\* Line 32: {"username": username, "userdata": data}, as leaf paths.
ProfileOf(name, d) ==
    LET paths == {<<"username">>}
                   \cup (IF DOMAIN d = {} THEN {<<"userdata">>}
                         ELSE {<<"userdata">> \o p : p \in DOMAIN d})
    IN  [q \in paths |->
           IF q = <<"username">> THEN name
           ELSE IF q = <<"userdata">> THEN EmptyMap
           ELSE d[Tail(q)]]

\* A profile that also carries a value the store does not hold yet, as a
\* server timestamp would.
ProfileStamped(c) ==
    LET held == users[auth[c].uid]
        stamp == IF <<"updated">> \in DOMAIN held /\ held[<<"updated">>] = "t1"
                 THEN "t2" ELSE "t1"
    IN  ProfileOf(username[c], data[c].fields) @@ [q \in {<<"updated">>} |-> stamp]

Profile(c) == ProfileOf(username[c], data[c].fields)

\* The document key taken from the payload's own "uid" field when it has one.
DocKeyFromPayload(c) ==
    IF <<"uid">> \in DOMAIN data[c].fields /\ data[c].fields[<<"uid">>] \in Uids
    THEN data[c].fields[<<"uid">>]
    ELSE auth[c].uid

\* Line 30: db.collection("users").document(uid).
DocKey(c) == auth[c].uid

IsPrefix(p, q) == Len(p) <= Len(q) /\ SubSeq(q, 1, Len(p)) = p

\* Line 33: set(profile, merge=True) on a document.  Every leaf path of the
\* written dict is in the update mask: the field at that path is replaced,
\* which drops what the document held at, below or above it; every other
\* field of the document is kept.
MergeWrite(doc, new) ==
    LET kept == {q \in DOMAIN doc :
                   \A p \in DOMAIN new : ~IsPrefix(p, q) /\ ~IsPrefix(q, p)}
    IN  [q \in kept \cup DOMAIN new |-> IF q \in DOMAIN new THEN new[q] ELSE doc[q]]

InFlight == {b \in CallIds : pc[b] \in {"get_user", "set"}}

\* Position of the next applied write.
NextSeq == 1 + Cardinality({b \in CallIds : applied[b] > 0})

\* Lines 16-19: the gateway invokes the handler with req.auth and req.data;
\* the handler rejects a caller that is not signed in.
Call(c, a, d) ==
    /\ pc[c] = "idle"
    /\ \A b \in CallIds : b < c => pc[b] # "idle"
    /\ auth' = [auth EXCEPT ![c] = a]
    /\ data' = [data EXCEPT ![c] = d]
    /\ concurrent' = [concurrent EXCEPT ![c] = InFlight]
    /\ IF Unauthenticated(a)
       THEN /\ pc' = [pc EXCEPT ![c] = "done"]
            /\ result' = [result EXCEPT ![c] = "unauthenticated"]
       ELSE /\ pc' = [pc EXCEPT ![c] = "get_user"]
            /\ UNCHANGED result
    /\ UNCHANGED <<users, username, lookup, attempts, wrote, applied>>

\* Lines 21-27: auth.get_user(uid) returns the user's record; then the
\* payload's shape is checked.
GetUser(c) ==
    /\ pc[c] = "get_user"
    /\ auth[c].uid \in Uids
    /\ lookup' = [lookup EXCEPT ![c] = "ok"]
    /\ username' = [username EXCEPT ![c] = display_name(auth[c].uid)]
    /\ IF data[c].kind # "dict"
       THEN /\ pc' = [pc EXCEPT ![c] = "done"]
            /\ result' = [result EXCEPT ![c] = "invalid-argument"]
       ELSE /\ pc' = [pc EXCEPT ![c] = "set"]
            /\ UNCHANGED result
    /\ UNCHANGED <<users, auth, data, attempts, wrote, applied, concurrent>>

\* The lookup's error caught and the handler going on without a name.
GetUserFailsSwallowed(c) ==
    /\ pc[c] = "get_user"
    /\ lookup' = [lookup EXCEPT ![c] = "failed"]
    /\ username' = [username EXCEPT ![c] = None]
    /\ IF data[c].kind # "dict"
       THEN /\ pc' = [pc EXCEPT ![c] = "done"]
            /\ result' = [result EXCEPT ![c] = "invalid-argument"]
       ELSE /\ pc' = [pc EXCEPT ![c] = "set"]
            /\ UNCHANGED result
    /\ UNCHANGED <<users, auth, data, attempts, wrote, applied, concurrent>>

\* Line 22: auth.get_user(uid) raises (an empty or unknown uid, the
\* directory unreachable); nothing catches it and the call ends.
GetUserFails(c) ==
    /\ pc[c] = "get_user"
    /\ lookup' = [lookup EXCEPT ![c] = "failed"]
    /\ pc' = [pc EXCEPT ![c] = "done"]
    /\ result' = [result EXCEPT ![c] = "internal"]
    /\ UNCHANGED <<users, auth, data, username, attempts, wrote, applied, concurrent>>

\* Lines 29-35: the merge-write is applied and the handler returns {"ok": True}.
SetDoc(c) ==
    /\ pc[c] = "set"
    /\ users' = [users EXCEPT ![DocKey(c)] = MergeWrite(@, Profile(c))]
    /\ attempts' = [attempts EXCEPT ![c] = @ + 1]
    /\ wrote' = [wrote EXCEPT ![c] = @ \cup {DocKey(c)}]
    /\ applied' = [applied EXCEPT ![c] = NextSeq]
    /\ pc' = [pc EXCEPT ![c] = "done"]
    /\ result' = [result EXCEPT ![c] = "ok"]
    /\ UNCHANGED <<auth, data, username, lookup, concurrent>>

\* The write's error followed by another attempt.
SetDocFailsRetry(c) ==
    /\ pc[c] = "set"
    /\ attempts' = [attempts EXCEPT ![c] = @ + 1]
    /\ UNCHANGED <<users, pc, auth, data, username, result, lookup, wrote,
                   applied, concurrent>>

\* The write's error caught and the handler returning {"ok": True}.
SetDocFailsSwallowed(c) ==
    /\ pc[c] = "set"
    /\ attempts' = [attempts EXCEPT ![c] = @ + 1]
    /\ pc' = [pc EXCEPT ![c] = "done"]
    /\ result' = [result EXCEPT ![c] = "ok"]
    /\ UNCHANGED <<users, auth, data, username, lookup, wrote, applied, concurrent>>

\* Line 33: set() raises; the store applies nothing of a write it rejects,
\* nothing catches the error and the call ends.
SetDocFails(c) ==
    /\ pc[c] = "set"
    /\ attempts' = [attempts EXCEPT ![c] = @ + 1]
    /\ pc' = [pc EXCEPT ![c] = "done"]
    /\ result' = [result EXCEPT ![c] = "internal"]
    /\ UNCHANGED <<users, auth, data, username, lookup, wrote, applied, concurrent>>

\* ---------------------------------------------------------- specifications

Init ==
    /\ users = [u \in Uids |-> NoDoc]
    /\ pc = [c \in CallIds |-> "idle"]
    /\ auth = [c \in CallIds |-> NoAuth]
    /\ data = [c \in CallIds |-> [kind |-> "null", fields |-> EmptyFields]]
    /\ username = [c \in CallIds |-> None]
    /\ result = [c \in CallIds |-> "none"]
    /\ lookup = [c \in CallIds |-> "none"]
    /\ attempts = [c \in CallIds |-> 0]
    /\ wrote = [c \in CallIds |-> {}]
    /\ applied = [c \in CallIds |-> 0]
    /\ concurrent = [c \in CallIds |-> {}]

\* Any caller, any payload shape.
Next ==
    \E c \in CallIds :
        \/ \E a \in Auths, d \in Datas : Call(c, a, d)
        \/ GetUser(c)
        \/ GetUserFails(c)
        \/ SetDoc(c)
        \/ SetDocFails(c)

Spec == Init /\ [][Next]_vars

\* Signed-in callers with dict payloads.
NextMerge ==
    \E c \in CallIds :
        \/ \E a \in SignedIn, d \in DictData : Call(c, a, d)
        \/ GetUser(c)
        \/ GetUserFails(c)
        \/ SetDoc(c)
        \/ SetDocFails(c)

SpecMerge == Init /\ [][NextMerge]_vars

\* Documents a user's earlier calls can have left in the collection.
StoredDocs(u) ==
    {NoDoc} \cup {MergeWrite(NoDoc, ProfileOf(display_name(u), d)) : d \in DictFields}

InitStored ==
    /\ users \in {[u \in Uids |-> IF u = "u1" THEN doc ELSE NoDoc] : doc \in StoredDocs("u1")}
    /\ pc = [c \in CallIds |-> "idle"]
    /\ auth = [c \in CallIds |-> NoAuth]
    /\ data = [c \in CallIds |-> [kind |-> "null", fields |-> EmptyFields]]
    /\ username = [c \in CallIds |-> None]
    /\ result = [c \in CallIds |-> "none"]
    /\ lookup = [c \in CallIds |-> "none"]
    /\ attempts = [c \in CallIds |-> 0]
    /\ wrote = [c \in CallIds |-> {}]
    /\ applied = [c \in CallIds |-> 0]
    /\ concurrent = [c \in CallIds |-> {}]

\* One signed-in user calling again and again over a stored document.
NextRepeat ==
    \E c \in CallIds :
        \/ \E d \in DictData : Call(c, [present |-> TRUE, uid |-> "u1"], d)
        \/ GetUser(c)
        \/ GetUserFails(c)
        \/ SetDoc(c)
        \/ SetDocFails(c)

SpecRepeat == InitStored /\ [][NextRepeat]_vars

\* ------------------------------------------------------------------ claims

Started(c) == pc[c] # "idle"

\* A caller the gateway verified, with the uid of a registered user.
ValidIdentity(c) == auth[c].present /\ auth[c].uid \in Uids

\* Top-level keys of a payload.
PayloadFields(d) == {p[1] : p \in DOMAIN d}

\* What a payload supplies under top-level key f.
PayloadValue(d, f) == [p \in {p \in DOMAIN d : p[1] = f} |-> d[p]]

\* What a document holds under userdata.f, in the payload's own paths.
StoredValue(doc, f) ==
    LET held == {q \in DOMAIN doc : Len(q) >= 2 /\ q[1] = "userdata" /\ q[2] = f}
    IN  [p \in {Tail(q) : q \in held} |-> doc[<<"userdata">> \o p]]

\* The successful calls of user k whose payload supplied field f.
Suppliers(k, f) ==
    {c \in CallIds : result[c] = "ok" /\ auth[c].uid = k /\ f \in PayloadFields(data[c].fields)}

LastOf(S) == CHOOSE c \in S : \A b \in S : applied[b] <= applied[c]

\* Every field some call of user k supplied is stored with the value of the
\* last applied write that supplied it.
FieldsHoldLatest(k) ==
    \A f \in Keys \cup {"uid"} :
        Suppliers(k, f) # {} =>
            StoredValue(users[k], f) = PayloadValue(data[LastOf(Suppliers(k, f))].fields, f)

CallsOf(k) == {c \in CallIds : Started(c) /\ auth[c].present /\ auth[c].uid = k}

Overlapped(b, c) == b \in concurrent[c] \/ c \in concurrent[b]

\* C1: identity isolation: a step changes the document keyed by k only as the
\* write of a call authenticated as k, whatever user id the payload carries.
IdentityIsolation ==
    [][\A k \in Uids :
          users'[k] # users[k] =>
              \E c \in CallIds :
                  /\ pc[c] = "set" /\ pc'[c] = "done"
                  /\ auth[c].present /\ auth[c].uid = k]_vars

\* C1 witness: u1 saved a payload naming u2 and u2 has no document.
IsolationWitness ==
    \E c \in CallIds :
        /\ result[c] = "ok" /\ auth[c].uid = "u1"
        /\ data[c].fields = Field("uid", "u2")
        /\ users["u1"] # NoDoc /\ users["u2"] = NoDoc

\* C2: a call without req.auth or without a uid ends unauthenticated, having
\* made no lookup and no write.
NoIdentityRejected ==
    \A c \in CallIds :
        Started(c) /\ (~auth[c].present \/ auth[c].uid = None) =>
            /\ pc[c] = "done" /\ result[c] = "unauthenticated"
            /\ lookup[c] = "none" /\ attempts[c] = 0 /\ wrote[c] = {}

\* C2 witness: one call without req.auth and one without a uid were rejected.
NoIdentityWitness ==
    /\ \E c \in CallIds : pc[c] = "done" /\ ~auth[c].present
    /\ \E c \in CallIds : pc[c] = "done" /\ auth[c].present /\ auth[c].uid = None

\* C3: a finished call with a valid identity and a payload that is not a dict
\* ended invalid-argument without writing, whatever the lookup did.
NonMappingRejected ==
    \A c \in CallIds :
        pc[c] = "done" /\ ValidIdentity(c) /\ data[c].kind # "dict" =>
            result[c] = "invalid-argument" /\ attempts[c] = 0 /\ wrote[c] = {}

\* C4 as stated: every finished call with a valid identity and a dict payload
\* returned ok after exactly one write, to its own document.
ValidCallWritesOnce ==
    \A c \in CallIds :
        pc[c] = "done" /\ ValidIdentity(c) /\ data[c].kind = "dict" =>
            result[c] = "ok" /\ attempts[c] = 1 /\ wrote[c] = {auth[c].uid}

\* C4, amended: a finished call with a valid identity and a dict payload
\* returned ok exactly when its lookup and its write succeeded, after one
\* write to its own document; a failed lookup left no write attempt, a failed
\* write left nothing written, and both ended the call with an internal error.
ValidCallOutcome ==
    \A c \in CallIds :
        pc[c] = "done" /\ ValidIdentity(c) /\ data[c].kind = "dict" =>
            \/ /\ result[c] = "ok" /\ lookup[c] = "ok"
               /\ attempts[c] = 1 /\ wrote[c] = {auth[c].uid}
               /\ users[auth[c].uid] # NoDoc
            \/ /\ result[c] = "internal" /\ lookup[c] = "failed"
               /\ attempts[c] = 0 /\ wrote[c] = {}
            \/ /\ result[c] = "internal" /\ lookup[c] = "ok"
               /\ attempts[c] = 1 /\ wrote[c] = {}

\* C4 witness: a valid call with a dict payload returned ok and its document
\* holds the profile.
ValidCallWitness ==
    \E c \in CallIds :
        /\ pc[c] = "done" /\ ValidIdentity(c) /\ data[c].kind = "dict"
        /\ result[c] = "ok"
        /\ users[auth[c].uid] = ProfileOf(display_name(auth[c].uid), data[c].fields)

\* C5: field preservation: when a user's calls ran one after the other, every
\* payload field a successful call supplied is stored with the value of the
\* latest call that supplied it.
FieldPreservation ==
    \A k \in Uids :
        (\A b, c \in CallsOf(k) : ~Overlapped(b, c)) => FieldsHoldLatest(k)

\* C6: merge idempotence: a write that repeats the last write applied to the
\* same document (same identity, same payload) leaves the collection as it is.
MergeIdempotence ==
    [][\A c \in CallIds :
          pc[c] = "set" /\ result'[c] = "ok" =>
              LET prev == {b \in CallIds : auth[c].uid \in wrote[b]}
              IN  (prev # {} /\ auth[LastOf(prev)] = auth[c]
                             /\ data[LastOf(prev)] = data[c])
                      => users' = users]_vars

\* C6 witness: over a stored document holding another field, the same payload
\* was saved twice in a row.
IdempotenceWitness ==
    \E b, c \in CallIds :
        /\ result[b] = "ok" /\ result[c] = "ok"
        /\ applied[c] = applied[b] + 1
        /\ auth[b] = auth[c] /\ data[b] = data[c]
        /\ data[c].fields = Field("A", "v2")
        /\ users["u1"] = MergeWrite(ProfileOf("n1", Field("B", "v1")),
                                    ProfileOf("n1", Field("A", "v2")))

\* C7: a call whose uid is the empty string ends unauthenticated, having made
\* no lookup and no write.
EmptyUidRejected ==
    \A c \in CallIds :
        Started(c) /\ auth[c].present /\ auth[c].uid = "" =>
            /\ pc[c] = "done" /\ result[c] = "unauthenticated"
            /\ lookup[c] = "none" /\ attempts[c] = 0

\* C8: within a call the lookup precedes the write: a call writes only once
\* its lookup has succeeded, and a failed lookup ends the call with that
\* failure and no write.
LookupPrecedesWrite ==
    \A c \in CallIds :
        /\ (pc[c] = "set" \/ attempts[c] > 0) => lookup[c] = "ok"
        /\ lookup[c] = "failed" =>
               /\ pc[c] = "done" /\ result[c] = "internal"
               /\ attempts[c] = 0 /\ wrote[c] = {}

\* C8 witness: one call's lookup failed, another wrote after its lookup.
LookupWitness ==
    /\ \E c \in CallIds : lookup[c] = "failed" /\ data[c].kind = "dict"
    /\ \E c \in CallIds : lookup[c] = "ok" /\ attempts[c] = 1

\* C9: a call makes at most one write attempt; a failed attempt ends the call
\* with an error, is not repeated and leaves the collection as it was.
AtMostOneWrite ==
    [][\A c \in CallIds :
          /\ attempts'[c] <= 1
          /\ (attempts'[c] # attempts[c] /\ wrote'[c] = wrote[c]) =>
                 /\ pc'[c] = "done" /\ result'[c] = "internal"
                 /\ users' = users]_vars

\* C9 witness: a call's write failed and its document does not exist.
FailedWriteWitness ==
    \E c \in CallIds :
        /\ pc[c] = "done" /\ lookup[c] = "ok" /\ attempts[c] = 1
        /\ result[c] = "internal" /\ wrote[c] = {}
        /\ users[auth[c].uid] = NoDoc

\* C10: once two concurrent calls of one user have both succeeded, every
\* payload field is stored with the value of the last applied write that
\* supplied it.
ConcurrentLastWriteWins ==
    \A k \in Uids :
        (\E b, c \in CallsOf(k) :
            b # c /\ Overlapped(b, c) /\ result[b] = "ok" /\ result[c] = "ok")
            => FieldsHoldLatest(k)

====
